---- MODULE Spec2Model ----
(***************************************************************************)
(* DOCX to PDF converter (src/app.py): the availability probe              *)
(* check_libreoffice, the two backends convert_with_libreoffice and        *)
(* convert_with_python, and the Convert-button handler of main, over a     *)
(* shared temporary directory.                                             *)
(***************************************************************************)
EXTENDS Integers, Sequences, FiniteSets, TLC

(***************************************************************************)
(* Bounds of the model.                                                    *)
(***************************************************************************)
\* number of distinct random stems tempfile can draw (tmp<stem><suffix>)
NumStems == 3
\* number of browser sessions that may press Convert
NumReqs == 2
\* longest document drawn for the paragraph loop
MaxParas == 2

VARIABLES
    \* ---- harness of check_libreoffice as a pure function
    fn_pc,            \* "off", "ready" (inputs drawn) or "done" (function applied)
    probe_env,        \* outcome of `<cmd> --version` per candidate
    probe_res,        \* what check_libreoffice returned
    \* ---- harness of the paragraph loop of convert_with_python
    render_doc,       \* doc.paragraphs
    render_story,     \* story after the loop
    \* ---- the temporary directory and the requests
    active,           \* the sessions that press Convert
    fs,               \* temp directory: path -> file content
    pc,               \* position of each request in main / the backends
    doc,              \* uploaded_file, as its paragraphs
    la,               \* libreoffice_available of main, line 217 (its cmd_name is never read)
    method,           \* conversion_method
    temp_pdf_path,    \* stem of temp_pdf_path (0: not yet created)
    temp_docx_path,   \* stem of temp_docx_path (0: not yet created)
    lo_probe,         \* (libreoffice_available, cmd_name) of line 94
    result,           \* outcome of subprocess.run at line 106
    success,          \* success of main
    message,          \* message of main
    py_exc,           \* exception caught in convert_with_python, or "none"
    pdf_data,         \* bytes read at line 294
    calls,            \* the calls made by the request so far, in order
    created,          \* the temp paths the request (or its subprocess) created
    outcome           \* what the request ended with

vars == <<fn_pc, probe_env, probe_res, render_doc, render_story, active, fs, pc, doc,
          la, method, temp_pdf_path, temp_docx_path, lo_probe, result, success,
          message, py_exc, pdf_data, calls, created, outcome>>

harnessVars == <<fn_pc, probe_env, probe_res, render_doc, render_story>>

(***************************************************************************)
(* check_libreoffice (lines 67-81)                                         *)
(***************************************************************************)
\* the candidate command names, in the order of the for loop
Candidates == <<"libreoffice", "soffice", "libreoffice7.6", "libreoffice7.5">>

\* what subprocess.run([cmd, '--version'], timeout=10) can do
RunOutcomes == {"exit0", "nonzero", "FileNotFoundError", "TimeoutExpired",
                "PermissionError", "OSError"}

ProbeEnvs == [1..Len(Candidates) -> RunOutcomes]

Found(cmd) == [available |-> TRUE, cmd_name |-> cmd, raised |-> FALSE]

NotAvailable == [available |-> FALSE, cmd_name |-> "None", raised |-> FALSE]

NoResult == [available |-> FALSE, cmd_name |-> "pending", raised |-> FALSE]

\* mutant: the outer handler missing, the exception leaves the function
OuterExceptMissing == [available |-> FALSE, cmd_name |-> "None", raised |-> TRUE]

\* except Exception: return False, None
OuterExcept == NotAvailable

RECURSIVE TryCandidates(_, _)
TryCandidates(env, i) ==
    IF i > Len(Candidates) THEN NotAvailable
    ELSE IF env[i] = "exit0" THEN Found(Candidates[i])
    ELSE IF env[i] = "nonzero" THEN TryCandidates(env, i + 1)
    ELSE IF env[i] \in {"FileNotFoundError", "TimeoutExpired"}
         THEN TryCandidates(env, i + 1)
    ELSE OuterExcept

check_libreoffice(env) == TryCandidates(env, 1)

\* everything a call of check_libreoffice can return, over all the outcomes
\* the candidates' subprocesses can have at the time of the call
ProbeReturns == {check_libreoffice(env) : env \in ProbeEnvs}

(***************************************************************************)
(* The paragraph loop of convert_with_python (lines 155-170).  Strings are *)
(* sequences of characters.                                                *)
(***************************************************************************)
Heading == <<"H", "e", "a", "d", "i", "n", "g">>
Heading_1 == Heading \o <<" ", "1">>
Heading_2 == Heading \o <<" ", "2">>
Heading_10 == Heading \o <<" ", "1", "0">>
Normal == <<"N", "o", "r", "m", "a", "l">>
Title == <<"T", "i", "t", "l", "e">>
Sub_Heading_1 == <<"S", "u", "b", " ">> \o Heading_1

StyleNames == {Heading_1, Heading_2, Heading_10, Normal, Title, Sub_Heading_1}

Texts == {<<>>, <<" ">>, <<"\t", "\n">>, <<"a">>, <<"a", "\n", "b">>}

Paragraphs == [text : Texts, style : StyleNames]

RECURSIVE SeqsUpTo(_, _)
SeqsUpTo(S, n) ==
    IF n = 0 THEN {<<>>}
    ELSE LET shorter == SeqsUpTo(S, n - 1)
         IN  shorter \cup {Append(s, x) : s \in {t \in shorter : Len(t) = n - 1}, x \in S}

Docs == SeqsUpTo(Paragraphs, MaxParas)

Whitespace == {" ", "\t", "\n", "\r"}

\* str.strip(): leading and trailing whitespace removed
RECURSIVE LStrip(_)
LStrip(s) ==
    IF s # <<>> /\ Head(s) \in Whitespace THEN LStrip(Tail(s)) ELSE s

RECURSIVE RStrip(_)
RStrip(s) ==
    IF s # <<>> /\ s[Len(s)] \in Whitespace
    THEN RStrip(SubSeq(s, 1, Len(s) - 1)) ELSE s

strip(s) == RStrip(LStrip(s))

startswith(s, prefix) ==
    Len(s) >= Len(prefix) /\ SubSeq(s, 1, Len(prefix)) = prefix

\* `sub in s`
contains(s, sub) ==
    \E i \in 1..(Len(s) - Len(sub) + 1) : SubSeq(s, i, i + Len(sub) - 1) = sub

\* text.replace('\n', '<br/>')
RECURSIVE replace_newlines(_)
replace_newlines(s) ==
    IF s = <<>> THEN <<>>
    ELSE (IF Head(s) = "\n" THEN <<"<", "b", "r", "/", ">">> ELSE <<Head(s)>>)
         \o replace_newlines(Tail(s))

\* lines 159-165: the reportlab style chosen for a paragraph style name
StyleFor(name) ==
    IF startswith(name, Heading)
    THEN (IF contains(name, Heading_1) THEN "Heading1" ELSE "Heading2")
    ELSE "Normal"

\* mutant: the paragraph text is tested without strip()
KeepsParagraphUnstripped(p) == p.text # <<>>

\* line 157: if paragraph.text.strip()
KeepsParagraph(p) == strip(p.text) # <<>>

\* lines 168-170: Paragraph(...) then Spacer(1, 6)
Flowables(p) ==
    << [kind |-> "Paragraph", text |-> replace_newlines(p.text), style |-> StyleFor(p.style)],
       [kind |-> "Spacer", text |-> <<>>, style |-> "none"] >>

RECURSIVE BuildStory(_)
BuildStory(ps) ==
    IF ps = <<>> THEN <<>>
    ELSE (IF KeepsParagraph(Head(ps)) THEN Flowables(Head(ps)) ELSE <<>>)
         \o BuildStory(Tail(ps))

(***************************************************************************)
(* The temporary directory.  tempfile.NamedTemporaryFile(suffix=...) makes *)
(* tmp<stem><suffix> for a random stem whose file does not exist yet.      *)
(***************************************************************************)
Reqs == 1..NumReqs
Stems == 1..NumStems
Paths == Stems \X {"docx", "pdf"}

Absent == [kind |-> "absent", by |-> "none", req |-> 0]
\* the empty file NamedTemporaryFile leaves after the with block of line 275
EmptyFile(r) == [kind |-> "empty", by |-> "tempfile", req |-> r]
\* the upload written at line 90
DocxFile(r) == [kind |-> "docx", by |-> "upload", req |-> r]
\* what the LibreOffice subprocess of request r writes
LoPdf(r) == [kind |-> "pdf", by |-> "LibreOffice", req |-> r]
\* what doc_pdf.build(story) of request r writes
PyPdf(r) == [kind |-> "pdf", by |-> "Python", req |-> r]

docx_path(r) == <<temp_docx_path[r], "docx">>
\* line 113: temp_docx_path.replace('.docx', '.pdf'), also where LibreOffice
\* writes: --outdir is the directory of output_path, the temp directory
expected_pdf_path(r) == <<temp_docx_path[r], "pdf">>
output_path(r) == <<temp_pdf_path[r], "pdf">>

(***************************************************************************)
(* Messages (the text after the leading symbol).                           *)
(***************************************************************************)
MsgLoNotFound == "LibreOffice not found. Please install LibreOffice for perfect conversion."
MsgLoOk == "Perfect conversion using LibreOffice! All formatting preserved."
MsgLoNoPdf == "PDF file was not created by LibreOffice"
MsgLoFailed == "LibreOffice conversion failed: "
MsgLoTimeout == "Conversion timeout - file might be too large or complex"
MsgLoError == "Conversion error: "
MsgPyOk == "Basic conversion completed. Text content preserved."
MsgPyNoText == "No text content found in the document."
MsgPyMissing == "Required Python package missing: "
MsgPyError == "Python conversion error: "

HighQuality == "High Quality (LibreOffice)"
Basic == "Basic (Python)"

\* the upload of every session when several run at once
ConcDocs == { << [text |-> <<"a">>, style |-> Normal] >> }

\* the uploads the requests are run on
MainDocs ==
    { <<>>,
      << [text |-> <<" ">>, style |-> Normal] >>,
      << [text |-> <<"a">>, style |-> Normal] >>,
      << [text |-> <<"\t", "\n">>, style |-> Heading_1],
         [text |-> <<"a", "\n", "b">>, style |-> Heading_1] >> }

(***************************************************************************)
(* Initial states.                                                         *)
(***************************************************************************)
HarnessOff ==
    /\ fn_pc = "off"
    /\ probe_env = [i \in 1..Len(Candidates) |-> "exit0"]
    /\ probe_res = NoResult
    /\ render_doc = <<>>
    /\ render_story = <<>>

InitRequests(running, uploads) ==
    /\ active = running
    /\ fs = [p \in Paths |-> Absent]
    /\ pc = [r \in Reqs |-> IF r \in running THEN "main" ELSE "idle"]
    /\ doc \in [Reqs -> uploads \cup {<<>>}]
    /\ \A r \in running : doc[r] \in uploads
    /\ \A r \in Reqs : r \notin running => doc[r] = <<>>
    /\ la = [r \in Reqs |-> FALSE]
    /\ method = [r \in Reqs |-> "unset"]
    /\ temp_pdf_path = [r \in Reqs |-> 0]
    /\ temp_docx_path = [r \in Reqs |-> 0]
    /\ lo_probe = [r \in Reqs |-> NoResult]
    /\ result = [r \in Reqs |-> "none"]
    /\ success = [r \in Reqs |-> FALSE]
    /\ message = [r \in Reqs |-> ""]
    /\ py_exc = [r \in Reqs |-> "none"]
    /\ pdf_data = [r \in Reqs |-> Absent]
    /\ calls = [r \in Reqs |-> <<>>]
    /\ created = [r \in Reqs |-> {}]
    /\ outcome = [r \in Reqs |-> "none"]

\* one session presses Convert
Init == HarnessOff /\ InitRequests({1}, MainDocs)

\* every session presses Convert
InitConc == HarnessOff /\ InitRequests(Reqs, ConcDocs)

InitProbe ==
    /\ InitRequests({}, {})
    /\ fn_pc = "ready"
    /\ probe_env \in ProbeEnvs
    /\ probe_res = NoResult
    /\ render_doc = <<>>
    /\ render_story = <<>>

InitRender ==
    /\ InitRequests({}, {})
    /\ fn_pc = "ready"
    /\ probe_env = [i \in 1..Len(Candidates) |-> "exit0"]
    /\ probe_res = NoResult
    /\ render_doc \in Docs
    /\ render_story = <<>>

(***************************************************************************)
(* The functions applied to drawn inputs.                                  *)
(***************************************************************************)
RunProbe ==
    /\ fn_pc = "ready"
    /\ fn_pc' = "done"
    /\ probe_res' = check_libreoffice(probe_env)
    /\ UNCHANGED <<probe_env, render_doc, render_story, active, fs, pc, doc,
                   la, method, temp_pdf_path, temp_docx_path, lo_probe, result,
                   success, message, py_exc, pdf_data, calls, created, outcome>>

RunRender ==
    /\ fn_pc = "ready"
    /\ fn_pc' = "done"
    /\ render_story' = BuildStory(render_doc)
    /\ UNCHANGED <<probe_env, probe_res, render_doc, active, fs, pc, doc,
                   la, method, temp_pdf_path, temp_docx_path, lo_probe, result,
                   success, message, py_exc, pdf_data, calls, created, outcome>>

(***************************************************************************)
(* main: the run of the script in which the Convert button is pressed.     *)
(***************************************************************************)
Call(r, f) == calls' = [calls EXCEPT ![r] = Append(@, f)]

\* an exception nothing in main catches ends the run
Uncaught(r) ==
    /\ outcome' = [outcome EXCEPT ![r] = "exception"]
    /\ pc' = [pc EXCEPT ![r] = "done"]

\* line 217: libreoffice_available, cmd_name = check_libreoffice()
MainProbe(r) ==
    /\ pc[r] = "main"
    /\ \E res \in ProbeReturns :
             /\ la' = [la EXCEPT ![r] = res.available]
             /\ IF res.raised
                THEN Uncaught(r)
                ELSE /\ pc' = [pc EXCEPT ![r] = "options"]
                     /\ UNCHANGED outcome
    /\ Call(r, "check_libreoffice")
    /\ UNCHANGED <<harnessVars, active, fs, doc, method, temp_pdf_path,
                   temp_docx_path, lo_probe, result, success, message, py_exc,
                   pdf_data, created>>

\* lines 261-272: the radio (offered only when LibreOffice was detected), then
\* the button
ChooseMethod(r) ==
    /\ pc[r] = "options"
    /\ \E m \in (IF la[r] THEN {HighQuality, Basic} ELSE {Basic}) :
         method' = [method EXCEPT ![r] = m]
    /\ pc' = [pc EXCEPT ![r] = "mktemp"]
    /\ UNCHANGED <<harnessVars, active, fs, doc, la, temp_pdf_path,
                   temp_docx_path, lo_probe, result, success, message, py_exc,
                   pdf_data, calls, created, outcome>>

\* lines 275-276: NamedTemporaryFile(delete=False, suffix='.pdf')
MkTempPdf(r) ==
    /\ pc[r] = "mktemp"
    /\ \E s \in Stems :
         /\ fs[<<s, "pdf">>] = Absent
         /\ fs' = [fs EXCEPT ![<<s, "pdf">>] = EmptyFile(r)]
         /\ temp_pdf_path' = [temp_pdf_path EXCEPT ![r] = s]
         /\ created' = [created EXCEPT ![r] = @ \cup {<<s, "pdf">>}]
    /\ pc' = [pc EXCEPT ![r] = "dispatch"]
    /\ UNCHANGED <<harnessVars, active, doc, la, method, temp_docx_path,
                   lo_probe, result, success, message, py_exc, pdf_data, calls,
                   outcome>>

\* lines 279-282
Dispatch(r) ==
    /\ pc[r] = "dispatch"
    /\ IF method[r] = HighQuality
       THEN /\ Call(r, "convert_with_libreoffice")
            /\ pc' = [pc EXCEPT ![r] = "lo_save"]
       ELSE /\ Call(r, "convert_with_python")
            /\ pc' = [pc EXCEPT ![r] = "py"]
    /\ UNCHANGED <<harnessVars, active, fs, doc, la, method, temp_pdf_path,
                   temp_docx_path, lo_probe, result, success, message, py_exc,
                   pdf_data, created, outcome>>

(***************************************************************************)
(* convert_with_libreoffice (lines 83-126)                                 *)
(***************************************************************************)
\* return success, message: the locals of the function die
LoReturn(r, ok, msg) ==
    /\ success' = [success EXCEPT ![r] = ok]
    /\ message' = [message EXCEPT ![r] = msg]
    /\ temp_docx_path' = [temp_docx_path EXCEPT ![r] = 0]
    /\ lo_probe' = [lo_probe EXCEPT ![r] = NoResult]
    /\ result' = [result EXCEPT ![r] = "none"]
    /\ pc' = [pc EXCEPT ![r] = "fallback"]

\* lines 89-91: the upload saved as tmp<stem>.docx
LoSave(r) ==
    /\ pc[r] = "lo_save"
    /\ \E s \in Stems :
         /\ fs[<<s, "docx">>] = Absent
         /\ fs' = [fs EXCEPT ![<<s, "docx">>] = DocxFile(r)]
         /\ temp_docx_path' = [temp_docx_path EXCEPT ![r] = s]
         /\ created' = [created EXCEPT ![r] = @ \cup {<<s, "docx">>}]
    /\ pc' = [pc EXCEPT ![r] = "lo_probe"]
    /\ UNCHANGED <<harnessVars, active, doc, la, method, temp_pdf_path,
                   lo_probe, result, success, message, py_exc, pdf_data, calls,
                   outcome>>

\* lines 94-97: the probe run again, inside the backend
LoProbe(r) ==
    /\ pc[r] = "lo_probe"
    /\ Call(r, "check_libreoffice")
    /\ \E res \in ProbeReturns :
             IF res.raised
             THEN LoReturn(r, FALSE, MsgLoError)
             ELSE IF ~res.available
             THEN LoReturn(r, FALSE, MsgLoNotFound)
             ELSE /\ lo_probe' = [lo_probe EXCEPT ![r] = res]
                  /\ pc' = [pc EXCEPT ![r] = "lo_run"]
                  /\ UNCHANGED <<temp_docx_path, result, success, message>>
    /\ UNCHANGED <<harnessVars, active, fs, doc, la, method, temp_pdf_path,
                   py_exc, pdf_data, created, outcome>>

\* what subprocess.run(cmd, timeout=30) at line 106 can do
ConvertOutcomes == {"exit0", "nonzero", "TimeoutExpired", "OSError"}

\* line 106: the subprocess may or may not have written <stem>.pdf into the
\* --outdir, whatever way it ends (it never started when the spawn raised)
LoRun(r) ==
    /\ pc[r] = "lo_run"
    /\ \E oc \in ConvertOutcomes, wrote \in BOOLEAN :
         /\ oc = "OSError" => ~wrote
         /\ IF wrote
            THEN /\ fs' = [fs EXCEPT ![expected_pdf_path(r)] = LoPdf(r)]
                 /\ created' = [created EXCEPT ![r] = @ \cup {expected_pdf_path(r)}]
            ELSE UNCHANGED <<fs, created>>
         /\ IF oc = "TimeoutExpired" THEN LoReturn(r, FALSE, MsgLoTimeout)
            ELSE IF oc = "OSError" THEN LoReturn(r, FALSE, MsgLoError)
            ELSE /\ result' = [result EXCEPT ![r] = oc]
                 /\ pc' = [pc EXCEPT ![r] = "lo_unlink"]
                 /\ UNCHANGED <<temp_docx_path, lo_probe, success, message>>
    /\ UNCHANGED <<harnessVars, active, doc, la, method, temp_pdf_path, py_exc,
                   pdf_data, calls, outcome>>

\* line 109: os.unlink(temp_docx_path)
LoUnlink(r) ==
    /\ pc[r] = "lo_unlink"
    /\ fs' = [fs EXCEPT ![docx_path(r)] = Absent]
    /\ pc' = [pc EXCEPT ![r] = "lo_check"]
    /\ UNCHANGED <<harnessVars, active, doc, la, method, temp_pdf_path,
                   temp_docx_path, lo_probe, result, success, message, py_exc,
                   pdf_data, calls, created, outcome>>

\* lines 111-121: the return code, then os.path.exists(expected_pdf_path)
LoCheck(r) ==
    /\ pc[r] = "lo_check"
    /\ IF result[r] # "exit0" THEN LoReturn(r, FALSE, MsgLoFailed)
       ELSE IF fs[expected_pdf_path(r)] = Absent THEN LoReturn(r, FALSE, MsgLoNoPdf)
       ELSE /\ pc' = [pc EXCEPT ![r] = "lo_rename"]
            /\ UNCHANGED <<temp_docx_path, lo_probe, result, success, message>>
    /\ UNCHANGED <<harnessVars, active, fs, doc, la, method, temp_pdf_path,
                   py_exc, pdf_data, calls, created, outcome>>

\* os.rename(src, dst): dst replaced by src, src gone; nothing when both are
\* the same file
Renamed(src, dst) ==
    IF src = dst THEN fs
    ELSE [fs EXCEPT ![dst] = fs[src], ![src] = Absent]

\* lines 115-116 (FileNotFoundError goes to the handler of line 125)
LoRename(r) ==
    /\ pc[r] = "lo_rename"
    /\ IF fs[expected_pdf_path(r)] = Absent
       THEN /\ LoReturn(r, FALSE, MsgLoError)
            /\ UNCHANGED fs
       ELSE /\ fs' = Renamed(expected_pdf_path(r), output_path(r))
            /\ LoReturn(r, TRUE, MsgLoOk)
    /\ UNCHANGED <<harnessVars, active, doc, la, method, temp_pdf_path,
                   py_exc, pdf_data, calls, created, outcome>>

(***************************************************************************)
(* main, lines 284-287, and convert_with_python (lines 128-182)            *)
(***************************************************************************)
\* mutant: the fallback taken after any failure
FallbackAfterAnyFailure(r) == ~success[r]

\* line 285
FallbackCond(r) == ~success[r] /\ method[r] = HighQuality

Fallback(r) ==
    /\ pc[r] = "fallback"
    /\ IF FallbackCond(r)
       THEN /\ Call(r, "convert_with_python")
            /\ pc' = [pc EXCEPT ![r] = "py_fallback"]
       ELSE /\ pc' = [pc EXCEPT ![r] = "show"]
            /\ UNCHANGED calls
    /\ UNCHANGED <<harnessVars, active, fs, doc, la, method, temp_pdf_path,
                   temp_docx_path, lo_probe, result, success, message, py_exc,
                   pdf_data, created, outcome>>

\* what the imports, docx.Document(docx_file) and doc_pdf.build(story) can do
PyOutcomes == {"none", "ImportError", "Exception"}

\* mutant: the PDF is built whether or not the story is empty
StoryNonEmptyAlways(story) == TRUE

\* line 173: if story
StoryNonEmpty(story) == story # <<>>

\* a call of convert_with_python: the one of line 282 returns to line 285,
\* the one of line 287 to line 289
ConvertWithPython(r) ==
    /\ pc[r] \in {"py", "py_fallback"}
    /\ \E exc \in PyOutcomes :
         /\ py_exc' = [py_exc EXCEPT ![r] = exc]
         /\ IF exc = "ImportError"
            THEN /\ success' = [success EXCEPT ![r] = FALSE]
                 /\ message' = [message EXCEPT ![r] = MsgPyMissing]
                 /\ UNCHANGED <<fs, created>>
            ELSE IF exc = "Exception"
            THEN /\ success' = [success EXCEPT ![r] = FALSE]
                 /\ message' = [message EXCEPT ![r] = MsgPyError]
                 /\ UNCHANGED <<fs, created>>
            ELSE IF StoryNonEmpty(BuildStory(doc[r]))
            THEN /\ fs' = [fs EXCEPT ![output_path(r)] = PyPdf(r)]
                 /\ created' = [created EXCEPT ![r] = @ \cup {output_path(r)}]
                 /\ success' = [success EXCEPT ![r] = TRUE]
                 /\ message' = [message EXCEPT ![r] = MsgPyOk]
            ELSE /\ success' = [success EXCEPT ![r] = FALSE]
                 /\ message' = [message EXCEPT ![r] = MsgPyNoText]
                 /\ UNCHANGED <<fs, created>>
    /\ pc' = [pc EXCEPT ![r] = IF pc[r] = "py" THEN "fallback" ELSE "show"]
    /\ UNCHANGED <<harnessVars, active, doc, la, method, temp_pdf_path,
                   temp_docx_path, lo_probe, result, pdf_data, calls, outcome>>

(***************************************************************************)
(* main, lines 289-321                                                     *)
(***************************************************************************)
\* lines 289-294 and 320-321: the message shown, the PDF read back
Show(r) ==
    /\ pc[r] = "show"
    /\ IF success[r]
       THEN IF fs[output_path(r)] = Absent
            THEN /\ Uncaught(r)
                 /\ UNCHANGED pdf_data
            ELSE /\ pdf_data' = [pdf_data EXCEPT ![r] = fs[output_path(r)]]
                 /\ pc' = [pc EXCEPT ![r] = "cleanup"]
                 /\ UNCHANGED outcome
       ELSE /\ outcome' = [outcome EXCEPT ![r] = "failure"]
            /\ pc' = [pc EXCEPT ![r] = "done"]
            /\ UNCHANGED pdf_data
    /\ UNCHANGED <<harnessVars, active, fs, doc, la, method, temp_pdf_path,
                   temp_docx_path, lo_probe, result, success, message, py_exc,
                   calls, created>>

\* lines 296-318: the download button, then os.unlink(temp_pdf_path)
Cleanup(r) ==
    /\ pc[r] = "cleanup"
    /\ IF fs[output_path(r)] = Absent
       THEN /\ Uncaught(r)
            /\ UNCHANGED fs
       ELSE /\ fs' = [fs EXCEPT ![output_path(r)] = Absent]
            /\ outcome' = [outcome EXCEPT ![r] = "success"]
            /\ pc' = [pc EXCEPT ![r] = "done"]
    /\ UNCHANGED <<harnessVars, active, doc, la, method, temp_pdf_path,
                   temp_docx_path, lo_probe, result, success, message, py_exc,
                   pdf_data, calls, created>>

\* a step of one of the running requests
Next ==
    \/ \E r \in active : MainProbe(r)
    \/ \E r \in active : ChooseMethod(r)
    \/ \E r \in active : MkTempPdf(r)
    \/ \E r \in active : Dispatch(r)
    \/ \E r \in active : LoSave(r)
    \/ \E r \in active : LoProbe(r)
    \/ \E r \in active : LoRun(r)
    \/ \E r \in active : LoUnlink(r)
    \/ \E r \in active : LoCheck(r)
    \/ \E r \in active : LoRename(r)
    \/ \E r \in active : Fallback(r)
    \/ \E r \in active : ConvertWithPython(r)
    \/ \E r \in active : Show(r)
    \/ \E r \in active : Cleanup(r)

NextProbe == RunProbe

NextRender == RunRender

\* one request at a time
Spec == Init /\ [][Next]_vars

\* the sessions run concurrently, interleaved at their file operations
SpecConc == InitConc /\ [][Next]_vars

\* check_libreoffice on every vector of subprocess outcomes
SpecProbe == InitProbe /\ [][NextProbe]_vars

\* the paragraph loop on every document up to MaxParas paragraphs
SpecRender == InitRender /\ [][NextRender]_vars

(***************************************************************************)
(* Properties.                                                             *)
(***************************************************************************)
IsBackend(c) == c # "check_libreoffice"
\* the backends the request has invoked, in order
Invocations(r) == SelectSeq(calls[r], IsBackend)

Finished(r) == r \in active /\ pc[r] = "done"

\* some paragraph has a character that is not whitespace
HasText(d) ==
    \E i \in 1..Len(d) : \E j \in 1..Len(d[i].text) : d[i].text[j] \notin Whitespace

\* the backend a success message names
BackendNamed(msg) ==
    IF msg = MsgLoOk THEN "LibreOffice"
    ELSE IF msg = MsgPyOk THEN "Python" ELSE "none"

\* C1: once a request is over, none of the temporary files it created (temp
\* input .docx, LibreOffice's <stem>.pdf, temp output .pdf) is left on disk.
C1_NoTempFileRemains ==
    \A r \in Reqs : Finished(r) => \A p \in created[r] : fs[p] = Absent

\* C2: a request that is over ended either in Success, with non-empty PDF
\* bytes read from the output file and a message naming the backend, or in
\* Failure with a non-empty reason; never both and never neither.
C2_ExactlyOneOutcome ==
    \A r \in Reqs : Finished(r) =>
        \/ /\ outcome[r] = "success"
           /\ success[r]
           /\ pdf_data[r].kind = "pdf"
           /\ BackendNamed(message[r]) # "none"
        \/ /\ outcome[r] = "failure"
           /\ ~success[r]
           /\ message[r] # ""
           /\ pdf_data[r] = Absent

\* C3: when LibreOffice was detected (the Python backend is always offered),
\* LibreOffice is the first backend invoked, Python is invoked next if it
\* fails, and the success message names the backend that wrote the bytes served.
C3_BackendPriority ==
    \A r \in Reqs : (r \in active /\ la[r]) =>
        /\ Invocations(r) # <<>> => Invocations(r)[1] = "convert_with_libreoffice"
        /\ Finished(r) =>
             /\ Invocations(r) \in {<<"convert_with_libreoffice">>,
                                    <<"convert_with_libreoffice", "convert_with_python">>}
             /\ Len(Invocations(r)) = 1 => success[r] /\ message[r] = MsgLoOk
             /\ outcome[r] = "success" => pdf_data[r].by = BackendNamed(message[r])

C5_NoBackendTwice ==
    \A r \in Reqs :
        /\ Invocations(r) \in {<<>>, <<"convert_with_libreoffice">>,
                               <<"convert_with_python">>,
                               <<"convert_with_libreoffice", "convert_with_python">>}
        /\ pc[r] = "py_fallback" => ~success[r]
        /\ (Finished(r) /\ Invocations(r) = <<"convert_with_libreoffice">>) => success[r]

\* LibreOffice failed, the Python fallback failed too, and the request ended
C5_Witness ==
    \E r \in Reqs : /\ Finished(r) /\ outcome[r] = "failure"
                    /\ Invocations(r) = <<"convert_with_libreoffice", "convert_with_python">>

\* the temp paths a running request holds: its output .pdf from creation to
\* its unlink, its .docx from creation to its unlink, and the derived
\* <stem>.pdf from the choice of the .docx name to the return of the backend
InUse(r) ==
    (IF r \in active /\ temp_pdf_path[r] # 0 /\ pc[r] # "done"
     THEN {output_path(r)} ELSE {})
    \cup (IF temp_docx_path[r] # 0 /\ pc[r] \in {"lo_probe", "lo_run", "lo_unlink"}
          THEN {docx_path(r)} ELSE {})
    \cup (IF temp_docx_path[r] # 0 THEN {expected_pdf_path(r)} ELSE {})

\* C6: two requests running at once never hold the same temp path.
C6_UniqueTempPaths ==
    \A r1, r2 \in Reqs : r1 # r2 => InUse(r1) \cap InUse(r2) = {}

\* C7: check_libreoffice returns normally whatever the subprocesses do:
\* (True, cmd) with cmd a candidate, or (False, None); and when no candidate
\* exits zero it returns (False, None).
C7_ProbeNeverRaises ==
    fn_pc = "done" =>
        /\ ~probe_res.raised
        /\ \/ probe_res = NotAvailable
           \/ /\ probe_res.available
              /\ \E i \in 1..Len(Candidates) : probe_res.cmd_name = Candidates[i]
        /\ (\A i \in 1..Len(Candidates) : probe_env[i] # "exit0")
               => probe_res = NotAvailable

\* a permission error on the first candidate, reported as unavailable
C7_Witness ==
    /\ fn_pc = "done"
    /\ probe_env[1] = "PermissionError"
    /\ probe_env[2] = "OSError"
    /\ probe_res = NotAvailable

\* the paragraphs of a document that have a non-whitespace character
KeptIndices(d) ==
    {i \in 1..Len(d) : \E j \in 1..Len(d[i].text) : d[i].text[j] \notin Whitespace}

\* the k-th of them, in source order
KthKept(d, k) ==
    CHOOSE i \in KeptIndices(d) : Cardinality({j \in KeptIndices(d) : j <= i}) = k

IsTextBlock(f) == f.kind = "Paragraph"

\* C8: the story holds one text block per non-whitespace paragraph, in source
\* order; style "Heading 1" gives the Heading1 face, "Normal" the Normal face,
\* any other name beginning with "Heading" a heading face; a blank paragraph
\* gives no block.
C8_RenderBlocks ==
    fn_pc = "done" =>
        LET blocks == SelectSeq(render_story, IsTextBlock)
        IN  /\ Len(blocks) = Cardinality(KeptIndices(render_doc))
            /\ \A k \in 1..Len(blocks) :
                 LET p == render_doc[KthKept(render_doc, k)]
                 IN  /\ blocks[k].text = replace_newlines(p.text)
                     /\ p.style = Heading_1 => blocks[k].style = "Heading1"
                     /\ p.style = Normal => blocks[k].style = "Normal"
                     /\ (startswith(p.style, Heading) /\ p.style # Heading_1)
                            => blocks[k].style \in {"Heading1", "Heading2"}

\* a blank paragraph followed by a "Heading 1" paragraph: one Heading1 block
C8_Witness ==
    /\ fn_pc = "done"
    /\ Len(render_doc) = 2
    /\ render_doc[1].text = <<"\t", "\n">>
    /\ render_doc[2] = [text |-> <<"a", "\n", "b">>, style |-> Heading_1]
    /\ Len(render_story) = 2
    /\ render_story[1].style = "Heading1"

\* C9: once a backend has been entered, check_libreoffice is not run again in
\* that request.
C9_NoReprobe ==
    \A r \in Reqs : \A i, j \in 1..Len(calls[r]) :
        (i < j /\ IsBackend(calls[r][i])) => calls[r][j] # "check_libreoffice"

\* C10: check_libreoffice returns (True, cmd) for the first candidate that
\* exits zero, and (False, None) only when no candidate would exit zero.
C10_FirstZeroExit ==
    fn_pc = "done" =>
        IF \E i \in 1..Len(Candidates) : probe_env[i] = "exit0"
        THEN LET first == CHOOSE i \in 1..Len(Candidates) :
                              /\ probe_env[i] = "exit0"
                              /\ \A j \in 1..(i - 1) : probe_env[j] # "exit0"
             IN  probe_res = Found(Candidates[first])
        ELSE probe_res = NotAvailable

====
